---- MODULE Spec2Model ----
(***************************************************************************)
(* The reconciliation waiter of the eck_cluster resource:                  *)
(* waitForResourceToBeReady (internal/provider/cluster_resource.go), the   *)
(* polling loop that cluster Create and Update run when wait = true.       *)
(*                                                                         *)
(* Time is discrete.  One clock step is TickerSeconds / StepsPerInterval   *)
(* seconds, `now' counts the steps since the invocation created its two    *)
(* timers.  The goroutine is either parked in the select statement or      *)
(* inside the GET call; time passes only while it is parked with no case   *)
(* ready, or while the GET is in flight (a fetch takes any amount of       *)
(* time).  A select with several ready cases takes any one of them, as     *)
(* Go's select does.                                                       *)
(***************************************************************************)
EXTENDS Integers, Sequences, FiniteSets, TLC

\* ---------------------------------------------------------------- bounds
\* Clock steps per poll interval (the resolution of the model's clock).
StepsPerInterval == 2
\* Poll intervals the clock keeps running after the deadline.
ExtraIntervals == 1

\* ------------------------------------------------------ program constants
\* time.NewTicker(30 * time.Second)
TickerSeconds == 30
\* time.After(10 * time.Minute)
TimeoutMinutes == 10
\* http.StatusOK
StatusOK == 200

\* The poll interval and the deadline, in clock steps.
Interval == StepsPerInterval
\* The deadline had the code said time.After(1 * time.Minute).
TimeoutOneMinute == (60 * StepsPerInterval) \div TickerSeconds
Timeout == (TimeoutMinutes * 60 * StepsPerInterval) \div TickerSeconds
MaxNow == Timeout + ExtraIntervals * Interval

\* ------------------------------------------------------------ the inputs
ControlPlanes == {"cp-a", "cp-b"}
ClusterNames == {"c-1"}

\* Provisioning statuses the remote system reports.
Statuses == {"Provisioning", "Provisioned", "Error"}
\* HTTP status codes the remote system answers with.
Codes == {200, 202, 500}

\* Error values (Go errors, identified by their message).
NilErr == "<nil>"
ErrCanceled == "operation was canceled"
ErrTimedOut == "timed out waiting for resource to be ready"
ErrConnRefused == "dial tcp: connection refused"
ErrCtxCanceled == "context canceled"
ErrBodyRead == "unexpected EOF"
ErrDecode == "invalid character"

\* The decoded cluster's Status pointer when it is nil.
NilStatus == "nil"

VARIABLES
    cp,         \* argument cp: the control plane name
    cn,         \* argument cn: the cluster name
    ctxDone,    \* ctx.Done() is closed
    now,        \* clock steps since the timers were created
    pc,         \* "idle", "select", "fetching", "done", "panicked"
    tickReady,  \* ticker.C (capacity 1) holds a tick
    cluster,    \* var cluster: the status last decoded into it
    ret,        \* the returned error ("none" until the wait returns)
    fetches,    \* GET calls issued by this invocation
    hist,       \* what each completed poll observed
    slow,       \* some fetch took time (the clock advanced during a GET)
    lateFetch,  \* a fetch was issued at or after the deadline
    cancelAt,   \* the value of `fetches' when ctx was cancelled, or -1
    calls,      \* the remote calls issued: <<method, control plane, name>>
    remote      \* the remote cluster: [status, gen]

\* The variables of one invocation of the waiter.
waiterVars == <<cp, cn, ctxDone, now, pc, tickReady, cluster, ret, fetches, hist,
                slow, lateFetch, cancelAt, calls, remote>>

\* One eck_cluster resource under Terraform's Create/Read/Update/Delete.
VARIABLES
    op,         \* the handler called last: "none", "Create", "Read", ...
    opc,        \* "ready" (no handler running), "waiting", "panicked"
    plan,       \* req.Plan of the running Create/Update
    tfstate,    \* the resource's Terraform state, or NoState
    diags,      \* resp.Diagnostics of the handler: the error summaries
    created,    \* the <<control plane, name>> the last Create addressed
    nOps,       \* handlers called so far
    kcFetch,    \* the handler's last getKubeconfig call: [polls, body]
    readResp    \* what the GET of the last Read returned, or NoResp

opVars == <<op, opc, plan, tfstate, diags, created, nOps, kcFetch, readResp>>

\* A second invocation of the waiter, running concurrently with the first:
\* a record of its arguments, its locals, its log and its remote cluster.
VARIABLES w2

\* The provider's Configure call.
VARIABLES
    config,          \* req.Config: host, username, password, project
    env,             \* the ECK_* environment variables
    tokenErr,        \* the error auth.GetToken returns for these inputs
    configured,      \* Configure has returned
    cfgDiags,        \* resp.Diagnostics: <<attribute, summary>> pairs
    resourceData,    \* resp.ResourceData
    dataSourceData   \* resp.DataSourceData

cfgVars == <<config, env, tokenErr, configured, cfgDiags, resourceData,
             dataSourceData>>

\* The workload node pools of a plan on their way to the wire form and back.
VARIABLES
    pools,              \* pools []workloadNodePoolModel of the plan
    poolc,              \* "plan", "wire", "state": how far the mapping went
    workloadNodePools,  \* what generateWorkloadNodePools returned
    workloadPools       \* what generateWorkloadNodePoolModel returned

poolVars == <<pools, poolc, workloadNodePools, workloadPools>>

\* One Read of the eck_cluster data source.
VARIABLES
    dsConfig,   \* req.Config: [name, eckcp]
    dsc,        \* "ready", "done", "panicked"
    dsResp,     \* what the GET returned, or NoResp
    dsState,    \* resp.State, or NoState
    dsDiags     \* resp.Diagnostics: the error summaries

dsVars == <<dsConfig, dsc, dsResp, dsState, dsDiags>>

vars == <<waiterVars, opVars, w2, cfgVars, poolVars, dsVars>>

\* ------------------------------------------------------- the remote system
\* A response of the generated client: (resp, err).
TransportErrors(done) == {ErrConnRefused} \cup (IF done THEN {ErrCtxCanceled} ELSE {})

\* The bodies the remote can send: its cluster JSON (named by the status it
\* carries), a JSON object without a status object, one with "status": null,
\* a body that is no JSON, and a body whose read fails.
Bodies(r) == {r.status, "nostatus", "nullstatus", "malformed", "readerr"}

Responses(r, done) ==
    [err : TransportErrors(done), code : {0}, body : {"-"}]
    \cup [err : {NilErr}, code : Codes, body : Bodies(r)]

\* What the remote does with a request: only a GET leaves the resource alone.
RemoteServe(r, req) ==
    IF req[1] = "GET" THEN r ELSE [r EXCEPT !.gen = (r.gen + 1) % 2]

\* ------------------------------------------------------------- the waiter
\* client.GetApiV1ControlplanesControlPlaneNameClustersClusterName(ctx, cp, cn)
\* (FetchRequestPut: the call had it been the PUT of the same path.)
FetchRequestPut(p, n) == <<"PUT", p, n>>
FetchRequest(p, n) == <<"GET", p, n>>

\* resp.StatusCode != http.StatusOK
BadStatusCode(code) == code # StatusOK

\* cluster.Status.Status == "Provisioned"
\* (IsReadyMutantAny: the test had it accepted "Provisioning" as well;
\* IsReadyMutantLiteral: the test had it compared with "Ready".)
IsReadyMutantAny(status) == status \in {"Provisioned", "Provisioning"}
IsReadyMutantLiteral(status) == status = "Ready"
IsReady(status) == status = "Provisioned"

\* json.Unmarshal(body, &cluster): the variable outlives the iteration, so a
\* body without a status object leaves the status of the previous poll.
Decode(cl, body) ==
    CASE body = "malformed" -> [err |-> ErrDecode, cluster |-> cl]
      [] body = "nostatus" -> [err |-> NilErr, cluster |-> cl]
      [] body = "nullstatus" -> [err |-> NilErr, cluster |-> NilStatus]
      [] OTHER -> [err |-> NilErr, cluster |-> body]

\* The loop's answer to a failed call, a bad status code, a failed body read
\* and a failed decode: return the error.
\* (ReturnBreak: the code had it said `break', which leaves the select
\* statement but not the for loop.)
ReturnBreak(e) == [pc |-> "select", ret |-> e]
Return(e) == [pc |-> "done", ret |-> e]
Continue == [pc |-> "select", ret |-> "none"]
Panic == [pc |-> "panicked", ret |-> "none"]

\* (The ...Mutant forms: the loop had it swallowed the error and gone on.)
OnTransportErrorMutant(e) == Continue
OnTransportError(e) == Return(e)

OnBadStatusMutant(code) == Continue
OnBadStatus(code) == Return(ToString(code))

OnDecodeErrorMutant(e) == Continue
OnDecodeError(e) == Return(e)

\* A decoded status other than "Provisioned", whatever it is: the case ends
\* and the loop goes to the next select.
\* (OnNotReadyFailFast: the loop had it returned on the status "Error".)
OnNotReadyFailFast(status) ==
    IF status = "Error" THEN Return("cluster is in Error") ELSE Continue
OnNotReady(status) == Continue

\* The body of `case <-ticker.C' after the call returned r.
HandleResponse(r, cl) ==
    IF r.err # NilErr THEN OnTransportError(r.err) @@ [cluster |-> cl]
    ELSE IF BadStatusCode(r.code) THEN OnBadStatus(r.code) @@ [cluster |-> cl]
    ELSE IF r.body = "readerr" THEN Return(ErrBodyRead) @@ [cluster |-> cl]
    ELSE LET d == Decode(cl, r.body) IN
         IF d.err # NilErr THEN OnDecodeError(d.err) @@ [cluster |-> d.cluster]
         ELSE IF d.cluster = NilStatus THEN Panic @@ [cluster |-> d.cluster]
         ELSE IF IsReady(d.cluster) THEN Return(NilErr) @@ [cluster |-> d.cluster]
         ELSE OnNotReady(d.cluster) @@ [cluster |-> d.cluster]

\* What a poll observed, as the history keeps it: a response that decodes to
\* a status other than "Provisioned" is kept as Pending, whatever the status.
Pending == [err |-> NilErr, code |-> StatusOK, body |-> "pending"]
Observed(r, cl) ==
    IF r.err = NilErr /\ r.code = StatusOK /\ r.body \notin {"readerr", "malformed"}
       /\ Decode(cl, r.body).cluster \notin {NilStatus, "Provisioned"}
    THEN Pending ELSE r

\* The deadline channel of time.After holds its value from Timeout on.
TimeoutReady == now >= Timeout

\* ctx.Done() is closed, so `case <-ctx.Done()' can proceed.
\* (CancelReadyNever: the select had it no such case.)
CancelReadyNever == FALSE
CancelReady == ctxDone

\* ------------------------------------------------- the layers at rest
\* No Terraform state, no plan, no Create yet, no kubeconfig call.
NoState == [none |-> TRUE]
NoPlan == [none |-> TRUE]
NoPair == <<>>
NoFetch == [none |-> TRUE]
NoResp == [none |-> TRUE]

\* No resource handler has been called.
OpIdle ==
    /\ op = "none"
    /\ opc = "ready"
    /\ plan = NoPlan
    /\ tfstate = NoState
    /\ diags = {}
    /\ created = NoPair
    /\ nOps = 0
    /\ kcFetch = NoFetch
    /\ readResp = NoResp

\* The second waiter before it is called with (p, n), facing a remote
\* cluster of status s.
W2Frame(p, n, s) ==
    [cp |-> p, cn |-> n, ctxDone |-> FALSE, now |-> 0, pc |-> "idle",
     tickReady |-> FALSE, cluster |-> NilStatus, ret |-> "none", fetches |-> 0,
     hist |-> <<>>, calls |-> {}, remote |-> [status |-> s, gen |-> 0]]
W2Idle == w2 = W2Frame("cp-b", "c-2", "Provisioning")

\* Provider data not handed over, a null and an unknown configuration value,
\* and the provider before Configure is called, with nothing configured.
NoData == [none |-> TRUE]
Null == "<null>"
Unknown == "<unknown>"
NoConfig == [host |-> Null, username |-> Null, password |-> Null,
             project |-> Null]
NoEnv == [host |-> "", username |-> "", password |-> "", project |-> ""]
CfgIdle ==
    /\ config = NoConfig
    /\ env = NoEnv
    /\ tokenErr = NilErr
    /\ configured = FALSE
    /\ cfgDiags = {}
    /\ resourceData = NoData
    /\ dataSourceData = NoData

\* No pools mapped, and the data source not read.
NoPools == <<>>
PoolIdle ==
    /\ pools = NoPools
    /\ poolc = "plan"
    /\ workloadNodePools = NoPools
    /\ workloadPools = NoPools
DsIdle ==
    /\ dsConfig = NoPlan
    /\ dsc = "ready"
    /\ dsResp = NoResp
    /\ dsState = NoState
    /\ dsDiags = {}

Init ==
    /\ cp \in ControlPlanes
    /\ cn \in ClusterNames
    /\ ctxDone = FALSE
    /\ now = 0
    /\ pc = "idle"
    /\ tickReady = FALSE
    /\ cluster = NilStatus
    /\ ret = "none"
    /\ fetches = 0
    /\ hist = <<>>
    /\ slow = FALSE
    /\ lateFetch = FALSE
    /\ cancelAt = -1
    /\ calls = {}
    /\ remote \in [status : Statuses, gen : {0}]
    /\ OpIdle /\ W2Idle /\ CfgIdle /\ PoolIdle /\ DsIdle

\* waitForResourceToBeReady is called: the two timers start.
Invoke ==
    /\ pc = "idle"
    /\ pc' = "select"
    /\ UNCHANGED <<cp, cn, ctxDone, now, tickReady, cluster, ret, fetches, hist,
                   slow, lateFetch, cancelAt, calls, remote>>
    /\ UNCHANGED <<opVars, w2, cfgVars, poolVars, dsVars>>

\* The caller's context is cancelled.
Cancel ==
    /\ pc \in {"idle", "select", "fetching"}
    /\ ~ctxDone
    /\ ctxDone' = TRUE
    /\ cancelAt' = fetches
    /\ UNCHANGED <<cp, cn, now, pc, tickReady, cluster, ret, fetches, hist,
                   slow, lateFetch, calls, remote>>
    /\ UNCHANGED <<opVars, w2, cfgVars, poolVars, dsVars>>

\* The remote system's own reconciliation moves the cluster's status.
RemoteChange ==
    /\ pc \in {"select", "fetching"}
    /\ \E s \in Statuses \ {remote.status} : remote' = [remote EXCEPT !.status = s]
    /\ UNCHANGED <<cp, cn, ctxDone, now, pc, tickReady, cluster, ret, fetches,
                   hist, slow, lateFetch, cancelAt, calls>>
    /\ UNCHANGED <<opVars, w2, cfgVars, poolVars, dsVars>>

\* One clock step passes; the ticker sends a tick every Interval steps and
\* drops it when ticker.C is full.
Advance ==
    /\ now < MaxNow
    /\ \/ pc = "fetching"
       \/ pc = "select" /\ ~CancelReady /\ ~TimeoutReady /\ ~tickReady
    /\ now' = now + 1
    /\ tickReady' = (tickReady \/ (now + 1) % Interval = 0)
    /\ slow' = (slow \/ pc = "fetching")
    /\ UNCHANGED <<cp, cn, ctxDone, pc, cluster, ret, fetches, hist, lateFetch,
                   cancelAt, calls, remote>>
    /\ UNCHANGED <<opVars, w2, cfgVars, poolVars, dsVars>>

\* case <-ctx.Done()
SelectCancel ==
    /\ pc = "select"
    /\ CancelReady
    /\ pc' = "done"
    /\ ret' = ErrCanceled
    /\ UNCHANGED <<cp, cn, ctxDone, now, tickReady, cluster, fetches, hist,
                   slow, lateFetch, cancelAt, calls, remote>>
    /\ UNCHANGED <<opVars, w2, cfgVars, poolVars, dsVars>>

\* case <-timeout
SelectTimeout ==
    /\ pc = "select"
    /\ TimeoutReady
    /\ pc' = "done"
    /\ ret' = ErrTimedOut
    /\ UNCHANGED <<cp, cn, ctxDone, now, tickReady, cluster, fetches, hist,
                   slow, lateFetch, cancelAt, calls, remote>>
    /\ UNCHANGED <<opVars, w2, cfgVars, poolVars, dsVars>>

\* case <-ticker.C: the tick is received and the GET is issued.
SelectTick ==
    /\ pc = "select"
    /\ tickReady
    /\ tickReady' = FALSE
    /\ pc' = "fetching"
    /\ fetches' = fetches + 1
    /\ lateFetch' = (lateFetch \/ now >= Timeout)
    /\ calls' = calls \cup {FetchRequest(cp, cn)}
    /\ remote' = RemoteServe(remote, FetchRequest(cp, cn))
    /\ UNCHANGED <<cp, cn, ctxDone, now, cluster, ret, hist, slow, cancelAt>>
    /\ UNCHANGED <<opVars, w2, cfgVars, poolVars, dsVars>>

\* The GET returns and the rest of the case runs.
FetchReturn ==
    /\ pc = "fetching"
    /\ \E r \in Responses(remote, ctxDone) :
         LET h == HandleResponse(r, cluster) IN
         /\ pc' = h.pc
         /\ ret' = h.ret
         /\ cluster' = h.cluster
         /\ hist' = Append(hist, Observed(r, cluster))
    /\ UNCHANGED <<cp, cn, ctxDone, now, tickReady, fetches, slow, lateFetch,
                   cancelAt, calls, remote>>
    /\ UNCHANGED <<opVars, w2, cfgVars, poolVars, dsVars>>

Next ==
    \/ Invoke
    \/ Cancel
    \/ RemoteChange
    \/ Advance
    \/ SelectCancel
    \/ SelectTimeout
    \/ SelectTick
    \/ FetchReturn

Spec == Init /\ [][Next]_vars

\* The scheduling the runtime gives the waiter: a called function starts, the
\* clocks advance, every GET returns, a ready tick is received, and a select
\* whose timeout or cancellation case is ready again and again takes it in the
\* end (Go's select chooses uniformly among the ready cases).
FairSpec ==
    /\ Spec
    /\ WF_vars(Invoke) /\ WF_vars(Advance) /\ WF_vars(FetchReturn)
    /\ WF_vars(SelectTick)
    /\ SF_vars(SelectTimeout) /\ SF_vars(SelectCancel)

\* ------------------------------------------- the eck_cluster resource
\* Bound: the handlers Terraform calls on the resource in one behaviour.
MaxOps == 2

\* http.StatusAccepted
StatusAccepted == 202

\* Cluster names a plan can carry.
PlanNames == {"c-1", "c-2"}

\* req.Plan as the handlers read it: name (Required), eckcp (default
\* "default") and wait (default false) are known values.  status is Computed
\* and not Optional, so it is unknown in every plan and
\* plan.Status.ValueString() is "".
Plans == [name : PlanNames, eckcp : ControlPlanes, wait : BOOLEAN]
PlanStatus == ""

\* The client's answers to POST, PUT and DELETE: (resp, err) with a nil resp
\* when err is set.
CallResponses(done) ==
    [err : TransportErrors(done), code : {0}] \cup [err : {NilErr}, code : Codes]

\* getKubeconfig: "" when the call or the body read fails, else the body
\* (the status code is not looked at).
KubeconfigResults == {"", "apiVersion: v1"}
KubeconfigRequest(p, n) == <<"GET kubeconfig", p, n>>

\* generateKubernetesCluster: the request body built from the plan.
generateKubernetesCluster(p) == [name |-> p.name, status |-> PlanStatus]

\* generateClusterModel(ctx, cluster, eckcp, kubeconfig, wait)
generateClusterModel(cl, eckcp, kubeconfig, wait) ==
    [name |-> cl.name, eckcp |-> eckcp, status |-> cl.status,
     kubeconfig |-> kubeconfig, wait |-> wait]

\* plan.Wait == types.BoolValue(true)
\* (WaitEnabledAlways: the handlers had they waited whatever the flag.)
WaitEnabledAlways(p) == TRUE
WaitEnabled(p) == p.wait = TRUE

\* The diagnostics of a wait that returned e.
\* (WaitErrorDiagDropped: the error had it been dropped.)
WaitErrorDiagDropped(e) == {}
WaitErrorDiag(e) ==
    IF e # NilErr THEN {"Error Waiting for Resource to be Ready"} ELSE {}

\* A handler starts: a fresh context, and no waiter frame; with start = TRUE
\* the handler calls waitForResourceToBeReady(ctx, client, p, n).
WaiterFrame(start, p, n) ==
    /\ cp' = p
    /\ cn' = n
    /\ ctxDone' = FALSE
    /\ now' = 0
    /\ pc' = IF start THEN "select" ELSE "idle"
    /\ tickReady' = FALSE
    /\ cluster' = NilStatus
    /\ ret' = "none"
    /\ fetches' = 0
    /\ hist' = <<>>
    /\ slow' = FALSE
    /\ lateFetch' = FALSE
    /\ cancelAt' = -1

\* OpInit: an unmanaged resource; the remote cluster is in any status.
OpInit ==
    /\ cp = "cp-a" /\ cn = "c-1"
    /\ ctxDone = FALSE /\ now = 0 /\ pc = "idle" /\ tickReady = FALSE
    /\ cluster = NilStatus /\ ret = "none" /\ fetches = 0 /\ hist = <<>>
    /\ slow = FALSE /\ lateFetch = FALSE /\ cancelAt = -1 /\ calls = {}
    /\ remote \in [status : Statuses, gen : {0}]
    /\ OpIdle /\ W2Idle /\ CfgIdle /\ PoolIdle /\ DsIdle

\* Create up to its return, or up to its call of the waiter.
Create ==
    /\ opc = "ready" /\ tfstate = NoState /\ nOps < MaxOps
    /\ \E p \in Plans, ur \in CallResponses(FALSE) :
         LET cl == generateKubernetesCluster(p)
             post == <<"POST", p.eckcp, cl.name>>
             again == cl.status = "Provisioned"
         IN
         /\ op' = "Create" /\ plan' = p /\ nOps' = nOps + 1
         /\ readResp' = NoResp
         /\ created' = <<p.eckcp, cl.name>>
         /\ remote' = RemoteServe(remote, post)
         /\ IF ur.err # NilErr
            THEN \* ur is nil and `ur.StatusCode' is read before err
                 /\ opc' = "panicked" /\ diags' = {} /\ tfstate' = tfstate
                 /\ kcFetch' = NoFetch /\ calls' = calls \cup {post}
                 /\ WaiterFrame(FALSE, p.eckcp, p.name)
            ELSE /\ diags' = IF ur.code # StatusAccepted
                             THEN {"Error creating cluster"} ELSE {}
                 /\ IF WaitEnabled(p)
                    THEN /\ opc' = "waiting" /\ tfstate' = tfstate
                         /\ kcFetch' = NoFetch /\ calls' = calls \cup {post}
                         /\ WaiterFrame(TRUE, p.eckcp, p.name)
                    ELSE /\ opc' = "ready"
                         /\ IF again
                            THEN \E k \in KubeconfigResults :
                                   /\ kcFetch' = [polls |-> 0, body |-> k]
                                   /\ calls' = calls \cup
                                        {post, KubeconfigRequest(p.eckcp, cl.name)}
                                   /\ tfstate' = generateClusterModel(
                                        cl, p.eckcp, k, p.wait)
                            ELSE /\ kcFetch' = NoFetch
                                 /\ calls' = calls \cup {post}
                                 /\ tfstate' = generateClusterModel(
                                      cl, p.eckcp, "", p.wait)
                         /\ WaiterFrame(FALSE, p.eckcp, p.name)
    /\ UNCHANGED <<w2, cfgVars, poolVars, dsVars>>

\* Create after the waiter returned: the error is recorded and the handler
\* goes on to the kubeconfig and to the state.
CreateAfterWait ==
    /\ op = "Create" /\ opc = "waiting" /\ pc = "done"
    /\ \E kubeconfig \in KubeconfigResults :
         LET cl == generateKubernetesCluster(plan) IN
         /\ diags' = diags \cup WaitErrorDiag(ret)
         /\ kcFetch' = [polls |-> Len(hist), body |-> kubeconfig]
         /\ calls' = calls \cup {KubeconfigRequest(plan.eckcp, cl.name)}
         /\ tfstate' = generateClusterModel(cl, plan.eckcp, kubeconfig, plan.wait)
    /\ opc' = "ready"
    /\ UNCHANGED <<cp, cn, ctxDone, now, pc, tickReady, cluster, ret, fetches,
                   hist, slow, lateFetch, cancelAt, remote>>
    /\ UNCHANGED <<op, plan, created, nOps, readResp, w2, cfgVars, poolVars, dsVars>>

\* Update up to its return, or up to its call of the waiter.
Update ==
    /\ opc = "ready" /\ tfstate # NoState /\ nOps < MaxOps
    /\ \E p \in Plans, r \in CallResponses(FALSE) :
         LET cl == generateKubernetesCluster(p)
             put == <<"PUT", p.eckcp, p.name>>
             again == cl.status = "Provisioned"
         IN
         /\ op' = "Update" /\ plan' = p /\ nOps' = nOps + 1
         /\ readResp' = NoResp
         /\ remote' = RemoteServe(remote, put)
         /\ IF r.err # NilErr
            THEN /\ opc' = "ready" /\ diags' = {"Error creating cluster"}
                 /\ tfstate' = tfstate /\ kcFetch' = NoFetch
                 /\ calls' = calls \cup {put}
                 /\ WaiterFrame(FALSE, p.eckcp, p.name)
            ELSE /\ diags' = {}
                 /\ IF WaitEnabled(p)
                    THEN /\ opc' = "waiting" /\ tfstate' = tfstate
                         /\ kcFetch' = NoFetch /\ calls' = calls \cup {put}
                         /\ WaiterFrame(TRUE, p.eckcp, p.name)
                    ELSE /\ opc' = "ready"
                         /\ IF again
                            THEN \E k \in KubeconfigResults :
                                   /\ kcFetch' = [polls |-> 0, body |-> k]
                                   /\ calls' = calls \cup
                                        {put, KubeconfigRequest(p.eckcp, cl.name)}
                                   /\ tfstate' = generateClusterModel(
                                        cl, p.eckcp, k, p.wait)
                            ELSE /\ kcFetch' = NoFetch
                                 /\ calls' = calls \cup {put}
                                 /\ tfstate' = generateClusterModel(
                                      cl, p.eckcp, "", p.wait)
                         /\ WaiterFrame(FALSE, p.eckcp, p.name)
    /\ UNCHANGED <<created, w2, cfgVars, poolVars, dsVars>>

\* Update after the waiter returned: a wait error is recorded and the
\* handler returns; else it goes on to the kubeconfig and to the state.
UpdateAfterWait ==
    /\ op = "Update" /\ opc = "waiting" /\ pc = "done"
    /\ \E kubeconfig \in KubeconfigResults :
         LET cl == generateKubernetesCluster(plan) IN
         IF ret # NilErr
         THEN /\ diags' = diags \cup WaitErrorDiag(ret)
              /\ UNCHANGED <<kcFetch, calls, tfstate>>
         ELSE /\ diags' = diags
              /\ kcFetch' = [polls |-> Len(hist), body |-> kubeconfig]
              /\ calls' = calls \cup {KubeconfigRequest(plan.eckcp, cl.name)}
              /\ tfstate' = generateClusterModel(cl, plan.eckcp, kubeconfig,
                                                 plan.wait)
    /\ opc' = "ready"
    /\ UNCHANGED <<cp, cn, ctxDone, now, pc, tickReady, cluster, ret, fetches,
                   hist, slow, lateFetch, cancelAt, remote>>
    /\ UNCHANGED <<op, plan, created, nOps, readResp, w2, cfgVars, poolVars, dsVars>>

\* cluster.Status != nil
\* (StatusPresentAlways: Read had it mapped the cluster without this test.)
StatusPresentAlways(status) == TRUE
StatusPresent(status) == status # NilStatus

\* Read: the cluster is fetched with the identifier of the state; the status
\* code is not looked at, and a body that does not decode leaves a cluster
\* without status.
Read ==
    /\ opc = "ready" /\ tfstate # NoState /\ nOps < MaxOps
    /\ \E r \in Responses(remote, FALSE) :
       \E k \in IF r.body = "Provisioned" THEN KubeconfigResults ELSE {""} :
         LET get == FetchRequest(tfstate.eckcp, tfstate.name)
             decodeErr == r.body \in {"malformed", "readerr"}
             status == IF decodeErr THEN NilStatus
                       ELSE Decode(NilStatus, r.body).cluster
             provisioned == status = "Provisioned"
         IN
         /\ remote' = RemoteServe(remote, get)
         /\ readResp' = r
         /\ IF r.err # NilErr
            THEN /\ diags' = {"Error Reading cluster information"}
                 /\ calls' = calls \cup {get}
                 /\ kcFetch' = NoFetch
                 /\ tfstate' = tfstate
            ELSE /\ diags' = IF decodeErr
                             THEN {"Unable to read cluster information", "Error"}
                             ELSE {}
                 /\ kcFetch' = IF StatusPresent(status) /\ provisioned
                               THEN [polls |-> 0, body |-> k] ELSE NoFetch
                 /\ calls' = calls \cup {get} \cup
                      (IF StatusPresent(status) /\ provisioned
                       THEN {KubeconfigRequest(tfstate.eckcp, tfstate.name)}
                       ELSE {})
                 /\ tfstate' =
                      IF StatusPresent(status)
                      THEN generateClusterModel(
                             [name |-> tfstate.name, status |-> status],
                             tfstate.eckcp, IF provisioned THEN k ELSE "",
                             tfstate.wait)
                      ELSE tfstate
         /\ WaiterFrame(FALSE, tfstate.eckcp, tfstate.name)
    /\ op' = "Read" /\ opc' = "ready" /\ plan' = NoPlan /\ nOps' = nOps + 1
    /\ UNCHANGED <<created, w2, cfgVars, poolVars, dsVars>>

\* Delete: the cluster of the state is deleted; Terraform drops the state
\* when the handler returns without error.
Delete ==
    /\ opc = "ready" /\ tfstate # NoState /\ nOps < MaxOps
    /\ \E r \in CallResponses(FALSE) :
         LET del == <<"DELETE", tfstate.eckcp, tfstate.name>> IN
         /\ remote' = RemoteServe(remote, del)
         /\ calls' = calls \cup {del}
         /\ diags' = IF r.err # NilErr THEN {"Error deleting cluster"} ELSE {}
         /\ tfstate' = IF r.err # NilErr THEN tfstate ELSE NoState
         /\ WaiterFrame(FALSE, tfstate.eckcp, tfstate.name)
    /\ op' = "Delete" /\ opc' = "ready" /\ plan' = NoPlan /\ nOps' = nOps + 1
    /\ kcFetch' = NoFetch /\ readResp' = NoResp
    /\ UNCHANGED <<created, w2, cfgVars, poolVars, dsVars>>

\* The handler's context is cancelled while the handler waits.
CancelWait == opc = "waiting" /\ Cancel

\* The clock of a waiting handler moves while the waiter is parked (in this
\* specification a GET returns within the clock step it was issued in).
ParkedAdvance == pc = "select" /\ Advance

OpNext ==
    \/ Create
    \/ CreateAfterWait
    \/ Update
    \/ UpdateAfterWait
    \/ Read
    \/ Delete
    \/ CancelWait
    \/ RemoteChange
    \/ ParkedAdvance
    \/ SelectCancel
    \/ SelectTimeout
    \/ SelectTick
    \/ FetchReturn

OpSpec == OpInit /\ [][OpNext]_vars

\* ------------------------------------------- the provider's Configure
Attrs == {"host", "username", "password", "project"}

\* A configuration value: null (not set), unknown, known and empty, known.
ConfigValues == {Null, Unknown, "", "v"}
\* An ECK_* environment variable: unset or empty, or set.
EnvValues == {"", "e"}
\* The error of auth.GetToken.
TokenErrors == {NilErr, "401 Unauthorized"}

\* config.X.IsUnknown(), config.X.IsNull(), config.X.ValueString()
IsUnknown(c) == c = Unknown
IsNull(c) == c = Null
ValueString(c) == IF c \in {Null, Unknown} THEN "" ELSE c

\* x := os.Getenv("ECK_X"); if !config.X.IsNull() { x = config.X.ValueString() }
\* (ResolveEnvFirst: the environment had it overridden the configuration.)
ResolveEnvFirst(c, e) == IF e # "" THEN e ELSE ValueString(c)
Resolve(c, e) == IF ~IsNull(c) THEN ValueString(c) ELSE e

\* auth.GetToken(host, username, password, project, false) and
\* auth.NewClient(host, token, false); the error of NewClient is discarded,
\* so the client handed on is nil when NewClient fails.
GetToken(v) == <<v.host, v.username, v.password, v.project>>
NilClient == [nil |-> TRUE]
NewClient(host, token) == {[host |-> host, token |-> token], NilClient}

\* The provider block and the environment are anything.
CfgInit ==
    /\ cp = "cp-a" /\ cn = "c-1"
    /\ ctxDone = FALSE /\ now = 0 /\ pc = "idle" /\ tickReady = FALSE
    /\ cluster = NilStatus /\ ret = "none" /\ fetches = 0 /\ hist = <<>>
    /\ slow = FALSE /\ lateFetch = FALSE /\ cancelAt = -1 /\ calls = {}
    /\ remote = [status |-> "Provisioning", gen |-> 0]
    /\ OpIdle /\ W2Idle /\ PoolIdle /\ DsIdle
    /\ config \in [host : ConfigValues, username : ConfigValues,
                   password : ConfigValues, project : ConfigValues]
    /\ env \in [host : EnvValues, username : EnvValues, password : EnvValues,
                project : EnvValues]
    /\ tokenErr \in TokenErrors
    /\ configured = FALSE
    /\ cfgDiags = {}
    /\ resourceData = NoData
    /\ dataSourceData = NoData

\* eckProvider.Configure
Configure ==
    /\ ~configured
    /\ configured' = TRUE
    /\ LET unknown == {a \in Attrs : IsUnknown(config[a])}
           v == [a \in Attrs |-> Resolve(config[a], env[a])]
           missing == {a \in Attrs : v[a] = ""}
       IN
       IF unknown # {}
       THEN /\ cfgDiags' = {<<a, "Unknown">> : a \in unknown}
            /\ UNCHANGED <<resourceData, dataSourceData>>
       ELSE IF missing # {}
       THEN /\ cfgDiags' = {<<a, "Missing">> : a \in missing}
            /\ UNCHANGED <<resourceData, dataSourceData>>
       ELSE IF tokenErr # NilErr
       THEN /\ cfgDiags' = {<<"", "Unable to Create ECK API Client">>}
            /\ UNCHANGED <<resourceData, dataSourceData>>
       ELSE /\ cfgDiags' = {}
            /\ \E client \in NewClient(v.host, GetToken(v)) :
                 /\ dataSourceData' = client
                 /\ resourceData' = client
    /\ UNCHANGED <<config, env, tokenErr>>
    /\ UNCHANGED <<waiterVars, opVars, w2, poolVars, dsVars>>

CfgNext == Configure

ConfigSpec == CfgInit /\ [][CfgNext]_vars

\* ----------------------------------------------- two concurrent waiters
\* Two handlers wait at the same time, for cp-a/c-1 and for cp-b/c-2.  The
\* first invocation is the one above; the second has its own frame w2: its
\* arguments, its context, its two timers (time.After and time.NewTicker are
\* called per invocation) and its `var cluster'.  Each clock counts from the
\* invocation's own start.  In this specification a GET returns within the
\* clock step it was issued in and the remote clusters keep their status.

\* The variable the second invocation decodes into: its own local.
\* (ClusterVarShared: `cluster' had it been one package-level variable.)
ClusterVarShared(own, other) == other
ClusterVar(own, other) == own

\* The statuses of the two remote clusters: in progress, or ready.
TwoStatuses == {"Provisioning", "Provisioned"}

TwoInit ==
    /\ cp = "cp-a" /\ cn = "c-1"
    /\ ctxDone = FALSE /\ now = 0 /\ pc = "idle" /\ tickReady = FALSE
    /\ cluster = NilStatus /\ ret = "none" /\ fetches = 0 /\ hist = <<>>
    /\ slow = FALSE /\ lateFetch = FALSE /\ cancelAt = -1 /\ calls = {}
    /\ remote \in [status : TwoStatuses, gen : {0}]
    /\ w2 \in {W2Frame("cp-b", "c-2", s) : s \in TwoStatuses}
    /\ OpIdle /\ CfgIdle /\ PoolIdle /\ DsIdle

Invoke2 ==
    /\ w2.pc = "idle"
    /\ w2' = [w2 EXCEPT !.pc = "select"]
    /\ UNCHANGED <<waiterVars, opVars, cfgVars, poolVars, dsVars>>

Cancel2 ==
    /\ w2.pc \in {"idle", "select", "fetching"}
    /\ ~w2.ctxDone
    /\ w2' = [w2 EXCEPT !.ctxDone = TRUE]
    /\ UNCHANGED <<waiterVars, opVars, cfgVars, poolVars, dsVars>>

Advance2 ==
    /\ w2.now < MaxNow
    /\ w2.pc = "select" /\ ~w2.ctxDone /\ w2.now < Timeout /\ ~w2.tickReady
    /\ w2' = [w2 EXCEPT !.now = @ + 1,
                        !.tickReady = (w2.now + 1) % Interval = 0]
    /\ UNCHANGED <<waiterVars, opVars, cfgVars, poolVars, dsVars>>

SelectCancel2 ==
    /\ w2.pc = "select"
    /\ w2.ctxDone
    /\ w2' = [w2 EXCEPT !.pc = "done", !.ret = ErrCanceled]
    /\ UNCHANGED <<waiterVars, opVars, cfgVars, poolVars, dsVars>>

SelectTimeout2 ==
    /\ w2.pc = "select"
    /\ w2.now >= Timeout
    /\ w2' = [w2 EXCEPT !.pc = "done", !.ret = ErrTimedOut]
    /\ UNCHANGED <<waiterVars, opVars, cfgVars, poolVars, dsVars>>

SelectTick2 ==
    /\ w2.pc = "select"
    /\ w2.tickReady
    /\ w2' = [w2 EXCEPT !.tickReady = FALSE, !.pc = "fetching",
                        !.fetches = @ + 1,
                        !.calls = @ \cup {FetchRequest(w2.cp, w2.cn)},
                        !.remote = RemoteServe(@, FetchRequest(w2.cp, w2.cn))]
    /\ UNCHANGED <<waiterVars, opVars, cfgVars, poolVars, dsVars>>

FetchReturn2 ==
    /\ w2.pc = "fetching"
    /\ \E r \in Responses(w2.remote, w2.ctxDone) :
         LET cl == ClusterVar(w2.cluster, cluster)
             h == HandleResponse(r, cl)
         IN w2' = [w2 EXCEPT !.pc = h.pc, !.ret = h.ret, !.cluster = h.cluster,
                             !.hist = Append(@, Observed(r, cl))]
    /\ UNCHANGED <<waiterVars, opVars, cfgVars, poolVars, dsVars>>

TwoNext ==
    \/ Invoke
    \/ Cancel
    \/ ParkedAdvance
    \/ SelectCancel
    \/ SelectTimeout
    \/ SelectTick
    \/ FetchReturn
    \/ Invoke2
    \/ Cancel2
    \/ Advance2
    \/ SelectCancel2
    \/ SelectTimeout2
    \/ SelectTick2
    \/ FetchReturn2

TwoSpec == TwoInit /\ [][TwoNext]_vars

\* ------------------------------------------------------------ the claims
\* A poll that returned without transport error, with HTTP 200 and a
\* decodable body whose status.status is "Provisioned".
ProvisionedResp(r) == r.err = NilErr /\ r.code = StatusOK /\ r.body = "Provisioned"
Polls == 1..Len(hist)
AllPending == \A i \in Polls : hist[i] = Pending
NeverCancelled == cancelAt = -1

\* C1: the wait returns success (a nil error) if and only if some poll
\* returned without transport error, with HTTP 200, a decodable body and
\* status.status = "Provisioned"; a poll that observes this is the last fetch
\* of the invocation and the wait has returned successfully after it.
C1_SuccessIffProvisionedPoll ==
    /\ ret = NilErr <=> \E i \in Polls : ProvisionedResp(hist[i])
    /\ \A i \in Polls : ProvisionedResp(hist[i]) =>
         i = Len(hist) /\ fetches = i /\ pc = "done" /\ ret = NilErr

C1_Witness ==
    /\ pc = "done" /\ ret = NilErr /\ Len(hist) >= 2
    /\ ProvisionedResp(hist[Len(hist)])

\* C2: a poll answered with a status code other than 200 ends the wait at
\* once, whatever is left of the timeout: the error is the status code, the
\* poll is the last fetch, and the response's body does not decide success.
C2_BadStatusReturnsAtOnce ==
    \A i \in Polls : (hist[i].err = NilErr /\ hist[i].code # StatusOK) =>
        /\ i = Len(hist) /\ fetches = i
        /\ pc = "done" /\ ret = ToString(hist[i].code)

C2_Witness ==
    /\ pc = "done" /\ ret = "500" /\ now < Timeout /\ Len(hist) >= 2
    /\ hist[Len(hist)].body = "Provisioned"

\* C3: a fetch that fails with a transport error ends the wait with that same
\* error and is not retried: it stays the last fetch of the invocation.
C3_TransportErrorNotRetried ==
    \A i \in Polls : hist[i].err # NilErr =>
        /\ i = Len(hist) /\ fetches = i
        /\ pc = "done" /\ ret = hist[i].err

C3_Witness ==
    /\ pc = "done" /\ ret = ErrConnRefused /\ Len(hist) >= 2
    /\ hist[Len(hist)].err = ErrConnRefused

\* C4: a poll answered with HTTP 200 and a body that is no JSON ends the wait
\* with the decode error; the waiter does not go on to the next tick.
C4_DecodeErrorReturned ==
    \A i \in Polls :
        (hist[i].err = NilErr /\ hist[i].code = StatusOK /\ hist[i].body = "malformed") =>
            /\ i = Len(hist) /\ fetches = i
            /\ pc = "done" /\ ret = ErrDecode

C4_Witness ==
    /\ pc = "done" /\ ret = ErrDecode /\ Len(hist) >= 2
    /\ hist[Len(hist)].body = "malformed"

\* C5: when every poll returns HTTP 200 with a status other than
\* "Provisioned" and the context is never cancelled, the wait ends, and it ends
\* with the timeout error: it never panics, and whenever it has ended it
\* returned "timed out waiting for resource to be ready", at or after the
\* deadline (not success, not another failure).
C5_PendingEndsInTimeout ==
    /\ []((AllPending /\ NeverCancelled) =>
            /\ pc # "panicked"
            /\ pc = "done" => (ret = ErrTimedOut /\ now >= Timeout))
    /\ ([](AllPending /\ NeverCancelled)) => <>(pc = "done" /\ ret = ErrTimedOut)

C5_Witness ==
    /\ pc = "done" /\ ret = ErrTimedOut /\ NeverCancelled
    /\ Len(hist) >= 3 /\ AllPending

\* C6: once the deadline has fired no further fetch is issued (also when a
\* tick is ready together with the deadline) and the wait does not return
\* success later than the deadline.
C6_DeadlineStopsWait ==
    /\ ~lateFetch
    /\ ~(pc = "done" /\ ret = NilErr /\ now > Timeout)

\* C7: once the context is cancelled (before the wait has ended) no further
\* poll is issued and the wait returns "operation was canceled", also when a
\* tick or the deadline is ready together with the cancellation.
C7_CancelStopsWait ==
    ~NeverCancelled =>
        /\ fetches = cancelAt
        /\ pc = "done" => ret = ErrCanceled

\* C8: if the first poll returns "Provisioned" (HTTP 200, decodable), the wait
\* has returned success and the invocation issued exactly one fetch.
C8_FirstPollProvisioned ==
    (Len(hist) >= 1 /\ ProvisionedResp(hist[1])) =>
        pc = "done" /\ ret = NilErr /\ fetches = 1

C8_Witness ==
    /\ Len(hist) = 1 /\ ProvisionedResp(hist[1])
    /\ pc = "done" /\ fetches = 1

\* C9: with a deterministic clock (no fetch takes time) and no cancellation,
\* a script of n non-terminal statuses followed by "Provisioned", all with
\* HTTP 200, makes the wait return success after exactly n + 1 polls; the
\* deadline cuts such a script only if (n + 1) * 30 s is not below 10 minutes.
C9_ScriptedPolls ==
    (NeverCancelled /\ ~slow) =>
        /\ (pc = "done" /\ ret = ErrTimedOut /\ AllPending) =>
              (Len(hist) + 1) * TickerSeconds >= TimeoutMinutes * 60
        /\ (Len(hist) >= 1 /\ ProvisionedResp(hist[Len(hist)])
              /\ \A i \in 1..(Len(hist) - 1) : hist[i] = Pending) =>
              pc = "done" /\ ret = NilErr /\ fetches = Len(hist)
        /\ (pc = "select" /\ ~tickReady) => fetches = now \div Interval

C9_Witness ==
    /\ NeverCancelled /\ ~slow /\ pc = "done" /\ ret = NilErr
    /\ fetches = 4 /\ Len(hist) = 4 /\ now = 4 * Interval
    /\ \A i \in 1..3 : hist[i] = Pending

\* C10: the waiter only observes: every remote call it issues is a GET of the
\* cluster (cp, cn) it was given, and no step of the waiter changes the remote
\* resource (the remote changes only by its own reconciliation).
WaiterStep == Invoke \/ SelectCancel \/ SelectTimeout \/ SelectTick \/ FetchReturn
C10_WaiterOnlyReads ==
    [][/\ calls' \subseteq {<<"GET", cp, cn>>}
       /\ WaiterStep => remote' = remote]_vars

C10_Witness ==
    /\ pc = "done" /\ fetches >= 2
    /\ calls = {<<"GET", cp, cn>>} /\ remote.gen = 0

\* C14: under the fairness of FairSpec (every GET returns, the clocks advance)
\* every invocation eventually returns, with one of the outcomes success,
\* transport error (a failed call or body read), bad status, decode error,
\* timeout or cancellation.
WaitOutcomes ==
    {NilErr, ErrConnRefused, ErrCtxCanceled, ErrBodyRead, ErrDecode, ErrTimedOut,
     ErrCanceled} \cup {ToString(c) : c \in Codes \ {StatusOK}}
C14_WaitReturns == <>(pc = "done" /\ ret \in WaitOutcomes)

\* C18: the wait starts in Polling (the select loop); an outcome exists exactly
\* in the terminal state, which only a step from Polling reaches, and once it
\* is reached no step changes the outcome, issues a fetch or moves the
\* waiter's clock.  (A run-time panic leaves Polling without any outcome.)
Polling == pc \in {"select", "fetching"}
C18_TerminalStates ==
    [][/\ (pc = "idle" /\ pc' # "idle") => (pc' = "select" /\ ret' = "none")
       /\ (pc' = "done" /\ pc # "done") => Polling
       /\ (ret' # "none") => (pc' = "done" /\ ret' \in WaitOutcomes)
       /\ (pc' = "panicked") => (ret' = "none" /\ pc \in {"fetching", "panicked"})
       /\ (pc = "done") =>
            (pc' = "done" /\ ret' = ret /\ fetches' = fetches /\ hist' = hist
               /\ now' = now /\ calls' = calls)]_vars

C18_Witness ==
    /\ pc = "done" /\ ret = ErrConnRefused /\ ctxDone /\ tickReady
    /\ now < Timeout /\ remote.status = "Provisioned"

\* C19: a status other than "Provisioned" is still in progress, also a
\* definitive failure status: while every poll returns HTTP 200 with status
\* "Error" (and the context is not cancelled) the wait does not end before the
\* deadline, it polls on every tick, and it ends with the timeout error.
ErrorOnly == AllPending /\ NeverCancelled /\ (hist # <<>> => cluster = "Error")
C19_ErrorStatusPollsToTimeout ==
    /\ []((ErrorOnly /\ pc = "done") => (ret = ErrTimedOut /\ now >= Timeout))
    /\ []((ErrorOnly /\ ~slow /\ pc = "select" /\ ~tickReady) =>
            fetches = now \div Interval)
    /\ ([]ErrorOnly) => <>(pc = "done" /\ ret = ErrTimedOut)

C19_Witness ==
    /\ pc = "done" /\ ret = ErrTimedOut /\ ErrorOnly /\ cluster = "Error"
    /\ ~slow /\ fetches >= (Timeout \div Interval) - 1

\* C20: every fetch is issued from the select, where the cancellation is
\* looked at; a cancellation raised while the waiter is parked between ticks
\* (no tick and no deadline ready) ends the wait there: no clock step and no
\* fetch comes first, and the wait returns "operation was canceled".
IdleCancelled == ctxDone /\ pc = "select" /\ ~tickReady /\ ~TimeoutReady
C20_CancelBetweenTicks ==
    /\ [][/\ fetches' # fetches => pc = "select"
          /\ IdleCancelled =>
               /\ fetches' = fetches /\ now' = now
               /\ pc' # pc => (pc' = "done" /\ ret' = ErrCanceled)]_vars
    /\ IdleCancelled ~> (pc = "done" /\ ret = ErrCanceled)

C20_Witness ==
    /\ pc = "done" /\ ret = ErrCanceled /\ cancelAt = fetches /\ fetches >= 1
    /\ now % Interval # 0 /\ now < Timeout /\ ~tickReady

\* C11: Create and Update call the waiter only when the plan's wait flag is
\* true: a waiter frame exists only inside a Create or Update whose plan has
\* wait = true and it polls the plan's identifier; with wait = false the
\* handler has issued its create/update request and has returned in the same
\* step, without a status poll.
OpRequest == <<IF op = "Create" THEN "POST" ELSE "PUT", plan.eckcp, plan.name>>
C11_WaitOnlyWhenAsked ==
    /\ (pc # "idle" \/ opc = "waiting" \/ fetches > 0) =>
         /\ op \in {"Create", "Update"}
         /\ plan.wait = TRUE
         /\ cp = plan.eckcp /\ cn = plan.name
    /\ (op \in {"Create", "Update"} /\ plan.wait = FALSE) =>
         /\ opc # "waiting" /\ pc = "idle"
         /\ fetches = 0 /\ hist = <<>>
         /\ OpRequest \in calls

C11_Witness ==
    /\ op = "Update" /\ opc = "ready" /\ plan.wait = FALSE /\ diags = {}
    /\ tfstate # NoState /\ tfstate.name = plan.name /\ tfstate.wait = FALSE
    /\ remote.status = "Provisioning" /\ fetches = 0

\* C12: after a Create or Update with wait = true whose wait succeeded, the
\* status attribute of the state written is the status the last poll
\* observed, "Provisioned".
C12_StateReflectsObserved ==
    (/\ op \in {"Create", "Update"} /\ opc = "ready"
     /\ plan.wait = TRUE /\ pc = "done" /\ ret = NilErr)
    => (tfstate # NoState /\ tfstate.status = "Provisioned")

\* C13: when a Create with wait = true has returned without an error
\* diagnostic, the wait returned success on a poll that observed
\* "Provisioned", the kubeconfig was fetched after that last poll, and the
\* state holds what that fetch returned; while the wait runs no kubeconfig
\* has been fetched.
C13_KubeconfigAfterProvisioned ==
    /\ (op = "Create" /\ opc = "ready" /\ plan.wait = TRUE /\ diags = {}) =>
         /\ pc = "done" /\ ret = NilErr
         /\ hist # <<>> /\ ProvisionedResp(hist[Len(hist)])
         /\ kcFetch # NoFetch /\ kcFetch.polls = Len(hist)
         /\ tfstate # NoState /\ tfstate.kubeconfig = kcFetch.body
    /\ (op = "Create" /\ opc = "waiting") => kcFetch = NoFetch

C13_Witness ==
    /\ op = "Create" /\ opc = "ready" /\ plan.wait = TRUE /\ diags = {}
    /\ Len(hist) >= 2 /\ tfstate.kubeconfig = "apiVersion: v1"
    /\ kcFetch.polls = Len(hist)

\* C15: two waiters running concurrently for different identifiers do not
\* interfere.  A step of one leaves every variable of the other unchanged (so
\* the return of one, whatever its outcome, never ends the other); each polls
\* only its own identifier, once per completed or pending fetch; and the
\* outcome of each follows from its own polls, its own clock and its own
\* context: success exactly on an own poll that observed "Provisioned", which
\* needs its own remote cluster to be "Provisioned", timeout only at its own
\* deadline, cancellation only when its own context is done.
OwnOutcome(wpc, wret, whist, wnow, wdone, wstatus) ==
    /\ wpc = "done" =>
         /\ wret = NilErr <=> (whist # <<>> /\ ProvisionedResp(whist[Len(whist)]))
         /\ wret = ErrTimedOut => wnow >= Timeout
         /\ wret = ErrCanceled => wdone
    /\ \A i \in 1..Len(whist) :
         ProvisionedResp(whist[i]) => wstatus = "Provisioned"
OwnPolls(wpc, wfetches, whist, wcalls, p, n) ==
    /\ wcalls \subseteq {FetchRequest(p, n)}
    /\ wfetches = Len(whist) + (IF wpc = "fetching" THEN 1 ELSE 0)
C15_WaitersIndependent ==
    /\ [](/\ OwnOutcome(pc, ret, hist, now, ctxDone, remote.status)
          /\ OwnOutcome(w2.pc, w2.ret, w2.hist, w2.now, w2.ctxDone,
                        w2.remote.status)
          /\ OwnPolls(pc, fetches, hist, calls, cp, cn)
          /\ OwnPolls(w2.pc, w2.fetches, w2.hist, w2.calls, w2.cp, w2.cn))
    /\ [][waiterVars' # waiterVars => w2' = w2]_vars

\* The first waiter polled until its deadline while the second, started
\* later, succeeded on its first poll.
C15_Witness ==
    /\ pc = "done" /\ ret = ErrTimedOut /\ now >= Timeout
    /\ fetches >= (Timeout \div Interval) - 1
    /\ w2.pc = "done" /\ w2.ret = NilErr /\ w2.fetches = 1 /\ w2.now < Timeout
    /\ ~ctxDone /\ ~w2.ctxDone


\* C16: every remote call a handler issues addresses the <<control plane,
\* name>> pair that the resource's Create addressed.
C16_IdentifierImmutable ==
    [][\A c \in calls' \ calls :
         created' # NoPair => <<c[2], c[3]>> = created']_vars

\* C17 (as the spec states it): each of host, username, password and project
\* resolves to the configuration value when it is not null and to the ECK_*
\* environment variable otherwise; whenever a resolved value is empty or a
\* configured value is unknown, Configure has reported an error for that
\* attribute and has handed over no client.
Expected(a) == IF config[a] = Null THEN env[a]
               ELSE IF config[a] = Unknown THEN "" ELSE config[a]
ErrorAttrs == {d[1] : d \in cfgDiags}
HandedOver == resourceData # NoData \/ dataSourceData # NoData
UnknownAttrs == {a \in Attrs : config[a] = Unknown}
EmptyAttrs == {a \in Attrs : Expected(a) = ""}
StatusPolls(c) == {x \in c : x[1] = "GET"}
C21_NoRetryOfWait ==
    [][/\ (pc' = "select" /\ pc \notin {"select", "fetching"}) =>
            (nOps' = nOps + 1 /\ op' \in {"Create", "Update"})
       /\ ((ret # "none" \/ pc = "panicked") /\ nOps' = nOps) =>
            /\ pc' = pc /\ ret' = ret
            /\ fetches' = fetches /\ hist' = hist
            /\ StatusPolls(calls') = StatusPolls(calls)]_vars

C21_Witness ==
    /\ op = "Create" /\ opc = "ready" /\ plan.wait = TRUE
    /\ pc = "done" /\ ret = ErrTimedOut /\ fetches >= (Timeout \div Interval) - 1
    /\ kcFetch # NoFetch

\* C22: with the 30 second ticker and the 10 minute deadline a fetch is
\* issued only on a tick: none before the first interval has elapsed, the
\* k-th fetch not before the k-th tick, and at most 20 fetches (the deadline
\* divided by the interval) in one invocation.
C22_FetchesOnTicks ==
    /\ fetches >= 1 => now >= Interval
    /\ fetches * Interval <= now
    /\ fetches * TickerSeconds <= TimeoutMinutes * 60

\* C23: a Create whose create request was answered with a status other than
\* 202 Accepted records "Error creating cluster" and stops: it starts no
\* wait, fetches no kubeconfig and writes no state.
C23_CreateStopsOnBadStatus ==
    (op = "Create" /\ "Error creating cluster" \in diags) =>
      /\ opc = "ready" /\ pc = "idle"
      /\ kcFetch = NoFetch
      /\ tfstate = NoState

\* C24: a Create or Update whose wait failed has recorded "Error Waiting for
\* Resource to be Ready" and has returned without a kubeconfig fetch and
\* without writing state, Create as Update.
C24_WaitErrorStops ==
    (/\ op \in {"Create", "Update"} /\ opc = "ready" /\ plan.wait = TRUE
     /\ pc = "done" /\ ret # NilErr) =>
      /\ "Error Waiting for Resource to be Ready" \in diags
      /\ kcFetch = NoFetch
      /\ op = "Create" => tfstate = NoState

\* C25: a Create whose create request failed with a transport error ends
\* normally (the handler returns; it does not panic on the missing
\* response), with an error diagnostic and without state.
C25_TransportErrorEndsNormally ==
    op = "Create" =>
      /\ opc # "panicked"
      /\ (opc = "ready" /\ tfstate = NoState) => diags # {}

\* C26: in Read the kubeconfig is fetched exactly when the status just read
\* is "Provisioned", and after a Read a non-empty kubeconfig in the state
\* comes with the status "Provisioned".
C26_KubeconfigOnlyProvisioned ==
    (op = "Read" /\ tfstate # NoState) =>
      /\ kcFetch # NoFetch <=>
           (readResp.err = NilErr /\ readResp.body = "Provisioned")
      /\ tfstate.kubeconfig # "" => tfstate.status = "Provisioned"

\* C27: a Read whose response carries no status object (an object without
\* status, a null status, a body that does not decode) leaves the state as
\* it was, attribute by attribute; a Read whose GET fails with a transport
\* error leaves the state as it was, fetches no kubeconfig and records an
\* error diagnostic.
NoStatusBodies == {"nostatus", "nullstatus", "malformed", "readerr"}
MaxPools == 2
PoolNames == {"pool-a", "pool-b"}
PoolDisks == {50, 100}
PoolFlavors == {"g.2.standard"}
PoolImages == {"eck-231018"}
PoolReplicas == {1, 3}
PoolVersions == {Null, "v1.27.2"}
NilAutoscaling == [nil |-> TRUE, minimum |-> 0, maximum |-> 0]
PoolAutoscalings == {NilAutoscaling, [nil |-> FALSE, minimum |-> 1, maximum |-> 3]}
NullLabels == [null |-> TRUE, elems |-> {}]
PoolLabels == {NullLabels, [null |-> FALSE, elems |-> {}],
               [null |-> FALSE, elems |-> {<<"tier", "gpu">>}]}
NilLabels == [nil |-> TRUE, elems |-> {}]
PoolModels ==
    [name : PoolNames, disk : PoolDisks, flavor : PoolFlavors,
     image : PoolImages, replicas : PoolReplicas, version : PoolVersions,
     autoscaling : PoolAutoscalings, labels : PoolLabels]
PoolLists == UNION {[1..n -> PoolModels] : n \in 0..MaxPools}

\* int(x) and int64(x): the values of the model are within 32 bits, where
\* both conversions keep the value on every build.
ValueInt64(c) == c
GoInt(x) == x
GoInt64(x) == x

\* tfMapToStringMap: a map of known strings, element by element.
tfMapToStringMap(value) == [nil |-> FALSE, elems |-> value.elems]

\* generateWorkloadNodePools: one wire pool per pool, in order.
WorkloadNodePool(pool) ==
    [name |-> ValueString(pool.name),
     disk |-> GoInt(ValueInt64(pool.disk)),
     flavorName |-> ValueString(pool.flavor),
     imageName |-> ValueString(pool.image),
     replicas |-> GoInt(ValueInt64(pool.replicas)),
     version |-> ValueString(pool.version),
     autoscaling |->
        IF ~pool.autoscaling.nil
        THEN [nil |-> FALSE,
              minimum |-> GoInt(ValueInt64(pool.autoscaling.minimum)),
              maximum |-> GoInt(ValueInt64(pool.autoscaling.maximum))]
        ELSE NilAutoscaling,
     labels |->
        IF ~pool.labels.null
           /\ ~tfMapToStringMap(pool.labels).nil
           /\ Cardinality(tfMapToStringMap(pool.labels).elems) # 0
        THEN tfMapToStringMap(pool.labels)
        ELSE NilLabels]
generateWorkloadNodePools(ps) ==
    [i \in 1..Len(ps) |-> WorkloadNodePool(ps[i])]

\* generateWorkloadNodePoolModel: one pool per wire pool, in order.
\* types.StringValue(x): a known string, the empty one included.
StringValue(x) == x
WorkloadPool(pool) ==
    [name |-> StringValue(pool.name),
     disk |-> GoInt64(pool.disk),
     flavor |-> StringValue(pool.flavorName),
     image |-> StringValue(pool.imageName),
     replicas |-> GoInt64(pool.replicas),
     version |-> StringValue(pool.version),
     autoscaling |->
        IF ~pool.autoscaling.nil
        THEN [nil |-> FALSE,
              minimum |-> GoInt64(pool.autoscaling.minimum),
              maximum |-> GoInt64(pool.autoscaling.maximum)]
        ELSE NilAutoscaling,
     labels |->
        IF ~pool.labels.nil /\ Cardinality(pool.labels.elems) # 0
        THEN [null |-> FALSE, elems |-> pool.labels.elems]
        ELSE NullLabels]
generateWorkloadNodePoolModel(ws) ==
    [i \in 1..Len(ws) |-> WorkloadPool(ws[i])]

\* PoolInit: a plan with up to MaxPools pools, nothing mapped yet.
PoolInit ==
    /\ cp = "cp-a" /\ cn = "c-1"
    /\ ctxDone = FALSE /\ now = 0 /\ pc = "idle" /\ tickReady = FALSE
    /\ cluster = NilStatus /\ ret = "none" /\ fetches = 0 /\ hist = <<>>
    /\ slow = FALSE /\ lateFetch = FALSE /\ cancelAt = -1 /\ calls = {}
    /\ remote = [status |-> "Provisioning", gen |-> 0]
    /\ OpIdle /\ W2Idle /\ CfgIdle /\ DsIdle
    /\ pools \in PoolLists
    /\ poolc = "plan"
    /\ workloadNodePools = NoPools
    /\ workloadPools = NoPools

\* generateKubernetesCluster builds the request body from the plan.
MapToWire ==
    /\ poolc = "plan"
    /\ workloadNodePools' = generateWorkloadNodePools(pools)
    /\ poolc' = "wire"
    /\ UNCHANGED <<pools, workloadPools>>
    /\ UNCHANGED <<waiterVars, opVars, w2, cfgVars, dsVars>>

\* generateClusterModel builds the state from that same cluster.
MapToModel ==
    /\ poolc = "wire"
    /\ workloadPools' = generateWorkloadNodePoolModel(workloadNodePools)
    /\ poolc' = "state"
    /\ UNCHANGED <<pools, workloadNodePools>>
    /\ UNCHANGED <<waiterVars, opVars, w2, cfgVars, dsVars>>

PoolNext == MapToWire \/ MapToModel
PoolSpec == PoolInit /\ [][PoolNext]_vars

\* C28: mapping the pools of a plan to the wire form and back gives the same
\* pools: same length and order, equal name, disk, flavor, image, replicas,
\* version and autoscaling per pool, and equal labels except that an empty or
\* null label map comes back as null.
LabelsKept(before, after) ==
    IF before.null \/ before.elems = {} THEN after = NullLabels
    ELSE after = before
C28_PoolRoundTrip ==
    poolc = "state" =>
      /\ Len(workloadPools) = Len(pools)
      /\ \A i \in 1..Len(pools) :
            /\ workloadPools[i].name = pools[i].name
            /\ workloadPools[i].disk = pools[i].disk
            /\ workloadPools[i].flavor = pools[i].flavor
            /\ workloadPools[i].image = pools[i].image
            /\ workloadPools[i].replicas = pools[i].replicas
            /\ workloadPools[i].version = pools[i].version
            /\ workloadPools[i].autoscaling = pools[i].autoscaling
            /\ LabelsKept(pools[i].labels, workloadPools[i].labels)

\* ------------------------------------------- the eck_cluster data source
\* generateClusterModel(ctx, cluster, eckcp, kubeconfig) of the data source:
\* the model has no wait attribute.
clusterModel(cl, eckcp, kubeconfig) ==
    [name |-> cl.name, eckcp |-> eckcp, status |-> cl.status,
     kubeconfig |-> kubeconfig]

\* DataInit: a configuration naming a cluster; the remote cluster is in any
\* status.
DataInit ==
    /\ cp = "cp-a" /\ cn = "c-1"
    /\ ctxDone = FALSE /\ now = 0 /\ pc = "idle" /\ tickReady = FALSE
    /\ cluster = NilStatus /\ ret = "none" /\ fetches = 0 /\ hist = <<>>
    /\ slow = FALSE /\ lateFetch = FALSE /\ cancelAt = -1 /\ calls = {}
    /\ remote \in [status : Statuses, gen : {0}]
    /\ OpIdle /\ W2Idle /\ CfgIdle /\ PoolIdle
    /\ dsConfig \in [name : PlanNames, eckcp : ControlPlanes]
    /\ dsc = "ready"
    /\ dsResp = NoResp
    /\ dsState = NoState
    /\ dsDiags = {}

\* clusterDataSource.Read, from req.Config.Get to its return.
DataRead ==
    /\ dsc = "ready" /\ dsConfig # NoPlan
    /\ \E r \in Responses(remote, FALSE) :
       \E k \in IF r.err = NilErr /\ r.code = StatusOK /\ r.body = "Provisioned"
                THEN KubeconfigResults ELSE {""} :
         LET get == FetchRequest(dsConfig.eckcp, dsConfig.name)
             silent == \/ BadStatusCode(r.code)
                       \/ r.body = "readerr"
                       \/ Decode(NilStatus, r.body).err # NilErr
             status == Decode(NilStatus, r.body).cluster
             fetched == r.err = NilErr /\ ~silent /\ status # NilStatus
         IN
         /\ remote' = RemoteServe(remote, get)
         /\ dsResp' = r
         /\ calls' = calls \cup {get} \cup
              (IF fetched /\ IsReady(status)
               THEN {KubeconfigRequest(dsConfig.eckcp, dsConfig.name)}
               ELSE {})
         /\ dsDiags' = IF r.err # NilErr
                       THEN {"Unable to retrieve cluster information"}
                       ELSE {}
         /\ dsc' = IF r.err = NilErr /\ ~silent /\ status = NilStatus
                   THEN "panicked" ELSE "done"
         /\ dsState' =
              IF fetched
              THEN clusterModel([name |-> dsConfig.name, status |-> status],
                                dsConfig.eckcp,
                                IF IsReady(status) THEN k ELSE "")
              ELSE NoState
    /\ UNCHANGED <<cp, cn, ctxDone, now, pc, tickReady, cluster, ret, fetches,
                   hist, slow, lateFetch, cancelAt, dsConfig>>
    /\ UNCHANGED <<opVars, w2, cfgVars, poolVars>>

DataNext == DataRead
DataSpec == DataInit /\ [][DataNext]_vars

\* C29: the data source Read writes state only after a fetch without
\* transport error, with HTTP 200 and a decodable body that carries a status
\* object; after a transport error, a status code other than 200 or an
\* unreadable or undecodable body it writes no state and records an error
\* diagnostic.
FailedFetch(r) ==
    \/ r.err # NilErr
    \/ r.code # StatusOK
    \/ r.body \in {"readerr", "malformed"}
C29_DataReadReportsFailure ==
    dsc # "ready" =>
      /\ dsState # NoState =>
            (~FailedFetch(dsResp) /\ dsResp.body \notin {"nostatus", "nullstatus"})
      /\ FailedFetch(dsResp) => (dsState = NoState /\ dsDiags # {})

====
